---- MODULE Spec2Model ----
(***************************************************************************)
(* A model of mdvy: the gemtext parser (ParseGemtext), the differential    *)
(* renderer (GemtextToHTML) and the view that re-renders on file change    *)
(* (View.render, View.watch, debouncer).                                   *)
(*                                                                         *)
(* Strings are sequences of one-character strings.  Three specifications   *)
(* share the variables: SpecParse runs the scan loop of ParseGemtext line  *)
(* by line, SpecRender runs the block loop of GemtextToHTML block by       *)
(* block, SpecView interleaves the goroutines of the view.                 *)
(***************************************************************************)
EXTENDS Integers, Sequences, FiniteSets, TLC

VARIABLES
    \* ParseGemtext (src/gemtext.go:110-175)
    input,      \* the content behind the reader, a sequence of lines
    rdErr,      \* the failure the reader has reported, or Nil
    pos,        \* the number of lines the scanner has delivered
    result,     \* var result = []Node{}
    pre,        \* pre := false
    prev,       \* var prev Node, as the index of the node in result (0: nil)
    line,       \* line := 0
    ppc,        \* "scan" | "returned" | "panic"
    perr,       \* the error returned: scn.Err()
    \* GemtextToHTML (src/gemtext.go:192-270)
    gt,         \* the new Document
    pgt,        \* the previous Document, a slice that may be nil
    i,          \* the diff cursor (0-based, as in the code)
    k,          \* the number of blocks of gt already rendered
    rpc,        \* "loop" | "returned"
    out,        \* what has been written to w, as a sequence of tokens
    flags,      \* flags[n]: block n of gt was judged changed
    cursors,    \* cursors[n]: the cursor before block n was processed
    \* View (src/main.go)
    md,         \* v.md != nil: the source is not a .gmi file
    fileText,   \* the content of the source file
    fileExists, \* whether the source file can be opened
    events,     \* the events waiting on v.fsw.Events
    errors,     \* the number of errors waiting on v.fsw.Errors
    nNotes,     \* how many events and errors the watcher has produced
    dtimer,     \* d.timer: the number of the timer, 0 for nil
    timers,     \* timers[n]: the state of the n-th timer made by time.AfterFunc
    th,         \* th[t]: the call of View.render made by thread t
    vgt,        \* v.gt, as the words of its slice header
    uiQueue,    \* the functions given to wv.Dispatch and not yet run, each
                \* named by the thread whose call of render made it
    shown,      \* the thread whose content was last given to setContent
    uiPc,       \* "loading" before the page calls onReady, then "ready"
    crashed,    \* the process has died of a fault
    doneFloor,  \* the newest baseline used by a call of render that returned nil
    docs        \* docs[n]: the Document of the n-th ParseGemtext call that
                \* succeeded, which is the array a slice header points to

parseVars == <<input, rdErr, pos, result, pre, prev, line, ppc, perr>>
renderVars == <<gt, pgt, i, k, rpc, out, flags, cursors>>
viewVars ==
    <<md, fileText, fileExists, events, errors, nNotes, dtimer, timers, th,
      vgt, uiQueue, shown, uiPc, crashed, doneFloor, docs>>
vars == <<parseVars, renderVars, viewVars>>

----------------------------------------------------------------------------
(* Bounds of the model. *)

\* Longest input of SpecParse, in lines.
MaxLines == 3

\* SpecRender: the longest new text drawn from RenderLines, the longest
\* previous text drawn from RenderLines, and the longest text (new and
\* previous) drawn from DiffLines.
MaxRenderLines == 2
MaxPrevLines == 1
MaxDiffLines == 3

\* SpecView: how many events and errors the file watcher produces in all.
MaxNotes == 2

\* SpecView: the time that passes in one step of the clock, in milliseconds.
TickMs == 250

\* The quiet interval of the debouncer: NewDebouncer(500 * time.Millisecond).
After == 500

\* bufio.MaxScanTokenSize, the buffer limit of the bufio.Scanner made by
\* bufio.NewScanner: a line this long or longer makes Scan fail (ErrTooLong).
MaxScanTokenSize == 65536

Nil == "nil"

\* A value of type Gemtext ([]Node): nil, or a slice of nodes.
NilSlice == [nil |-> TRUE, nodes |-> <<>>]
Slice(nodes) == [nil |-> FALSE, nodes |-> nodes]

----------------------------------------------------------------------------
(* strings, unicode *)

\* The grave accent U+0060, which a TLA+ string literal cannot hold.
GR == "grave"

\* The preformatted toggle marker, three grave accents.
Fence == <<GR, GR, GR>>

IsSpace(c) == c \in {" ", "\t"}

HasPrefix(s, p) == Len(s) >= Len(p) /\ SubSeq(s, 1, Len(p)) = p

\* s[n:]
From(s, n) == SubSeq(s, n + 1, Len(s))

RECURSIVE TrimLeftSpace(_)
TrimLeftSpace(s) ==
    IF s # <<>> /\ IsSpace(Head(s)) THEN TrimLeftSpace(Tail(s)) ELSE s

RECURSIVE TrimRightSpace(_)
TrimRightSpace(s) ==
    IF s # <<>> /\ IsSpace(s[Len(s)])
    THEN TrimRightSpace(SubSeq(s, 1, Len(s) - 1))
    ELSE s

TrimSpace(s) == TrimRightSpace(TrimLeftSpace(s))

\* strings.IndexFunc(s, unicode.IsSpace): 0-based, -1 when there is none
IndexSpace(s) ==
    LET hits == {n \in 1..Len(s) : IsSpace(s[n])}
    IN  IF hits = {} THEN -1
        ELSE (CHOOSE n \in hits : \A m \in hits : n <= m) - 1

----------------------------------------------------------------------------
(* The document tree. *)

Paragraph(l, t) == [type |-> "Paragraph", line |-> l, Text |-> t]
Link(l, u, lb) == [type |-> "Link", line |-> l, URL |-> u, Label |-> lb]
Heading(l, lv, t) == [type |-> "Heading", line |-> l, Level |-> lv, Text |-> t]
List(l, items) == [type |-> "List", line |-> l, Items |-> items]
Quote(l, ps) == [type |-> "Quote", line |-> l, Paragraphs |-> ps]
Pre(l, alt, ps) == [type |-> "Pre", line |-> l, Alt |-> alt, Paragraphs |-> ps]

\* The comparison of two []*Paragraph that compares the paragraphs whole,
\* line numbers included.
EqualParagraphsWhole(a, b) == a = b

\* slices.EqualFunc over two []*Paragraph with (*Paragraph).Equal
EqualParagraphs(a, b) ==
    /\ Len(a) = Len(b)
    /\ \A n \in 1..Len(a) : a[n].Text = b[n].Text

\* n.Equal(o), by the variant of n
Equal(n, o) ==
    /\ n.type = o.type
    /\ CASE n.type = "Paragraph" -> n.Text = o.Text
         [] n.type = "Link"      -> n.URL = o.URL /\ n.Label = o.Label
         [] n.type = "Heading"   -> n.Level = o.Level /\ n.Text = o.Text
         [] n.type = "List"      -> EqualParagraphs(n.Items, o.Items)
         [] n.type = "Quote"     -> EqualParagraphs(n.Paragraphs, o.Paragraphs)
         [] n.type = "Pre"       -> EqualParagraphs(n.Paragraphs, o.Paragraphs)

----------------------------------------------------------------------------
(* ParseGemtext *)

\* The state of the scan loop.
ParserState(r, p, pv, l, pc) ==
    [result |-> r, pre |-> p, prev |-> pv, line |-> l, pc |-> pc]

ParserInit == ParserState(<<>>, FALSE, 0, 0, "scan")

\* prev.(*T): the type assertion on the most recent node
PrevIs(st, type) ==
    st.prev # 0 /\ st.result[st.prev].type = type

\* The append that leaves prev alone when the node is a Paragraph.
AppendParagraphKeepsPrev(st, n) ==
    IF n.type = "Paragraph" /\ st.prev # 0
    THEN [st EXCEPT !.result = Append(st.result, n)]
    ELSE [st EXCEPT !.result = Append(st.result, n), !.prev = Len(st.result) + 1]

\* result = append(result, n); prev = n
AppendNode(st, n) ==
    [st EXCEPT !.result = Append(st.result, n), !.prev = Len(st.result) + 1]

\* q.<field> = append(q.<field>, p) on the node prev points to
AppendToPrev(st, fld, p) ==
    [st EXCEPT !.result[st.prev][fld] = Append(st.result[st.prev][fld], p)]

\* The branch that leaves preformatted mode only on a line that is the
\* marker and nothing more.
ParsePreLineBareFence(st, text) ==
    IF text = Fence
    THEN [st EXCEPT !.pre = FALSE]
    ELSE IF PrevIs(st, "Pre")
         THEN AppendToPrev(st, "Paragraphs", Paragraph(st.line, text))
         ELSE [st EXCEPT !.pc = "panic"]

\* The branch of the loop body taken in preformatted mode.
ParsePreLine(st, text) ==
    IF HasPrefix(text, Fence)
    THEN [st EXCEPT !.pre = FALSE]
    ELSE IF PrevIs(st, "Pre")
         THEN AppendToPrev(st, "Paragraphs", Paragraph(st.line, text))
         ELSE [st EXCEPT !.pc = "panic"]

ParseLink(l, text) ==
    LET url == TrimSpace(From(text, 3))
        ix == IndexSpace(url)
    IN  IF ix > 0
        THEN Link(l, SubSeq(url, 1, ix), TrimLeftSpace(From(url, ix + 1)))
        ELSE Link(l, url, <<>>)

\* The branch of the loop body taken outside preformatted mode.
ParseNormalLine(st, text) ==
    LET l == st.line IN
    IF HasPrefix(text, <<">">>) THEN
        LET q == IF PrevIs(st, "Quote") THEN st ELSE AppendNode(st, Quote(l, <<>>))
        IN  AppendToPrev(q, "Paragraphs", Paragraph(l, text))
    ELSE IF HasPrefix(text, <<"*", " ">>) THEN
        LET q == IF PrevIs(st, "List") THEN st ELSE AppendNode(st, List(l, <<>>))
        IN  AppendToPrev(q, "Items", Paragraph(l, TrimLeftSpace(From(text, 2))))
    ELSE IF HasPrefix(text, <<"#", " ">>) THEN
        AppendNode(st, Heading(l, 1, TrimSpace(From(text, 1))))
    ELSE IF HasPrefix(text, <<"#", "#", " ">>) THEN
        AppendNode(st, Heading(l, 2, TrimSpace(From(text, 2))))
    ELSE IF HasPrefix(text, <<"#", "#", "#", " ">>) THEN
        AppendNode(st, Heading(l, 3, TrimSpace(From(text, 3))))
    ELSE IF HasPrefix(text, <<"=", ">", " ">>) THEN
        AppendNode(st, ParseLink(l, text))
    ELSE IF HasPrefix(text, Fence) THEN
        [AppendNode(st, Pre(l, From(text, 3), <<>>)) EXCEPT !.pre = TRUE]
    ELSE
        AppendNode(st, Paragraph(l, text))

\* The line counter advanced only outside preformatted mode.
LineCountedOutsidePre(st) == IF st.pre THEN st.line ELSE st.line + 1

\* line += 1
NextLineNumber(st) == st.line + 1

\* One iteration of the scan loop on the line text.
ParseLine(st, text) ==
    LET s == [st EXCEPT !.line = NextLineNumber(st)]
    IN  IF s.pre THEN ParsePreLine(s, text) ELSE ParseNormalLine(s, text)

\* A line of the reader: the characters text followed by fill more
\* characters, none of them a space or a marker.
InLine(s) == [text |-> s, fill |-> 0]
LineLen(ln) == Len(ln.text) + ln.fill

\* scn.Scan() delivers a line only if it fits the buffer of the scanner.
ScanFits(ln) == LineLen(ln) < MaxScanTokenSize

\* The whole of ParseGemtext on the lines ls, none failing to scan.
RECURSIVE ParseFrom(_, _)
ParseFrom(st, ls) ==
    IF ls = <<>> \/ st.pc # "scan" THEN st
    ELSE ParseFrom(ParseLine(st, Head(ls)), Tail(ls))

ParseGemtext(ls) == ParseFrom(ParserInit, ls).result

\* The whole of ParseGemtext on a reader that does not fail and holds the
\* lines ls: the Document and the error returned.
RECURSIVE ScanFrom(_, _)
ScanFrom(st, ls) ==
    IF ls = <<>> \/ st.pc # "scan" THEN [result |-> st.result, err |-> Nil]
    ELSE IF ~ScanFits(Head(ls)) THEN [result |-> st.result, err |-> "ErrTooLong"]
    ELSE ScanFrom(ParseLine(st, Head(ls).text), Tail(ls))

ParseReader(ls) == ScanFrom(ParserInit, ls)

----------------------------------------------------------------------------
(* html.EscapeString, strconv.Itoa *)

EscapeChar(c) ==
    CASE c = "&"  -> <<"&", "a", "m", "p", ";">>
      [] c = "'"  -> <<"&", "#", "3", "9", ";">>
      [] c = "<"  -> <<"&", "l", "t", ";">>
      [] c = ">"  -> <<"&", "g", "t", ";">>
      [] c = "\"" -> <<"&", "#", "3", "4", ";">>
      [] OTHER    -> <<c>>

RECURSIVE EscapeString(_)
EscapeString(s) ==
    IF s = <<>> THEN <<>> ELSE EscapeChar(Head(s)) \o EscapeString(Tail(s))

Digits == <<"0", "1", "2", "3", "4", "5", "6", "7", "8", "9">>

RECURSIVE Itoa(_)
Itoa(n) ==
    IF n < 10 THEN <<Digits[n + 1]>>
    ELSE Itoa(n \div 10) \o <<Digits[(n % 10) + 1]>>

----------------------------------------------------------------------------
(* GemtextToHTML: what it writes.                                          *)
(* The output is kept as the sequence of the pieces written: an opening    *)
(* tag with its attributes in the order written, a run of text, a closing  *)
(* tag, or a fixed piece of markup.  A piece also records the node it was  *)
(* written for (of, line), which is not part of the bytes written.         *)

OpenTok(tag, attrs, n) ==
    [tok |-> "open", tag |-> tag, attrs |-> attrs, of |-> n.type, line |-> n.line]
TextTok(s, n, src) ==
    [tok |-> "text", s |-> s, of |-> n.type, src |-> src]
CloseTok(tag) == [tok |-> "close", tag |-> tag]
RawTok(s) == [tok |-> "raw", s |-> s]

ClassChanged == <<"c", "h", "a", "n", "g", "e", "d">>

\* The orders in which range visits the keys of a map.
KeyOrders(m) ==
    {o \in [1..Cardinality(DOMAIN m) -> DOMAIN m] :
        \A a, b \in DOMAIN o : a # b => o[a] # o[b]}

\* writeEl(w, tag, attrs): the opening tags it can write, one for each order
\* in which range may visit attrs.
WriteEl(tag, attrs, n) ==
    {OpenTok(tag, [x \in DOMAIN o |-> <<o[x], EscapeString(attrs[o[x]])>>], n) :
        o \in KeyOrders(attrs)}

\* attrs := map[string]string{"data-line": ...}; if changed { attrs["class"] = "changed" }
NodeAttrs(n, changed) ==
    IF changed
    THEN [x \in {"data-line", "class"} |->
            IF x = "class" THEN ClassChanged ELSE Itoa(n.line)]
    ELSE [x \in {"data-line"} |-> Itoa(n.line)]

LineAttrs(p) == [x \in {"data-line"} |-> Itoa(p.line)]

HeadingTag(level) ==
    CASE level = 1 -> "h1" [] level = 2 -> "h2" [] level = 3 -> "h3"

ContainerTag(n) ==
    CASE n.type = "Paragraph" -> "p"
      [] n.type = "Link"      -> "div"
      [] n.type = "Heading"   -> HeadingTag(n.Level)
      [] n.type = "List"      -> "ul"
      [] n.type = "Quote"     -> "blockquote"
      [] n.type = "Pre"       -> "pre"

\* The switch writing the container of a Pre as a fixed piece, as it does
\* that of a Quote.
ContainerOpenFixed(n, changed) ==
    IF n.type \in {"Quote", "Pre"}
    THEN {OpenTok(ContainerTag(n), <<>>, n)}
    ELSE WriteEl(ContainerTag(n), NodeAttrs(n, changed), n)

\* The opening tags the switch can write first for node n.
ContainerOpen(n, changed) ==
    IF n.type = "Quote"
    THEN {OpenTok("blockquote", <<>>, n)}
    ELSE WriteEl(ContainerTag(n), NodeAttrs(n, changed), n)

\* The one opening tag writeEl writes for a map of one key.
WriteEl1(tag, attrs, n) == CHOOSE t \in WriteEl(tag, attrs, n) : TRUE

RECURSIVE ListItems(_, _)
ListItems(n, ps) ==
    IF ps = <<>> THEN <<>>
    ELSE << WriteEl1("li", LineAttrs(Head(ps)), [n EXCEPT !.line = Head(ps).line]),
            OpenTok("li", <<>>, [n EXCEPT !.line = Head(ps).line]),
            TextTok(Head(ps).Text, n, Head(ps).Text),
            CloseTok("li") >> \o ListItems(n, Tail(ps))

RECURSIVE QuoteLines(_, _)
QuoteLines(n, ps) ==
    IF ps = <<>> THEN <<>>
    ELSE << WriteEl1("p", LineAttrs(Head(ps)), [n EXCEPT !.line = Head(ps).line]),
            TextTok(Head(ps).Text, n, Head(ps).Text),
            CloseTok("p") >> \o QuoteLines(n, Tail(ps))

RECURSIVE PreLines(_, _)
PreLines(n, ps) ==
    IF ps = <<>> THEN <<>>
    ELSE << TextTok(Head(ps).Text, n, Head(ps).Text), RawTok("\n") >>
         \o PreLines(n, Tail(ps))

\* What the switch writes for node n after its container's opening tag, up to
\* the newline that ends the node.
NodeBody(n) ==
    (CASE n.type = "Paragraph" ->
            << TextTok(EscapeString(n.Text), n, n.Text), CloseTok("p") >>
       [] n.type = "Link" ->
            << RawTok("linkIcon"), RawTok(" "),
               OpenTok("a", << <<"href", EscapeString(n.URL)>> >>, n),
               IF n.Label # <<>>
               THEN TextTok(EscapeString(n.Label), n, n.Label)
               ELSE TextTok(EscapeString(n.URL), n, n.URL),
               CloseTok("a"), CloseTok("div") >>
       [] n.type = "Heading" ->
            << TextTok(EscapeString(n.Text), n, n.Text),
               CloseTok(HeadingTag(n.Level)) >>
       [] n.type = "List" ->
            ListItems(n, n.Items) \o << CloseTok("ul") >>
       [] n.type = "Quote" ->
            QuoteLines(n, n.Paragraphs) \o << CloseTok("blockquote") >>
       [] n.type = "Pre" ->
            PreLines(n, n.Paragraphs) \o << CloseTok("pre") >>)
    \o << RawTok("\n") >>

----------------------------------------------------------------------------
(* GemtextToHTML: the search for a node in the previous Document. *)

\* The test for an empty paragraph made without trimming.
IsEmptyParagraph(n) == n.type = "Paragraph" /\ n.Text = <<>>

\* strings.TrimSpace(p.Text) == "" for a *Paragraph
IsBlankParagraph(n) == n.type = "Paragraph" /\ TrimSpace(n.Text) = <<>>

\* The scan starting at the block after the cursor.
ScanAfterCursor(c) == c + 1

\* The scan starting at the first previous block, whatever the cursor.
ScanFromZero(c) == 0

\* j := i, the first index the inner loop looks at
ScanStart(c) == c

\* for j := ...; j < len(pgt); j++ { if n.Equal(pgt[j]) { ...; break } }:
\* the index (0-based) the loop breaks at, or -1 when it runs to the end.
RECURSIVE ScanPrevious(_, _, _)
ScanPrevious(n, p, j) ==
    IF j >= Len(p.nodes) THEN -1
    ELSE IF Equal(n, p.nodes[j + 1]) THEN j
    ELSE ScanPrevious(n, p, j + 1)

\* The search that forgets i = j when it finds the node.
SearchKeepsCursor(n, p, c) ==
    IF p.nil THEN [changed |-> FALSE, i |-> c]
    ELSE IF IsBlankParagraph(n) THEN [changed |-> FALSE, i |-> c]
    ELSE [changed |-> ScanPrevious(n, p, ScanStart(c)) < 0, i |-> c]

\* The search that judges every block of a first render changed.
SearchFirstChanged(n, p, c) ==
    IF p.nil THEN [changed |-> TRUE, i |-> c]
    ELSE IF IsBlankParagraph(n) THEN [changed |-> FALSE, i |-> c]
    ELSE LET j == ScanPrevious(n, p, ScanStart(c))
         IN  IF j >= 0 THEN [changed |-> FALSE, i |-> j]
             ELSE [changed |-> TRUE, i |-> c]

\* The first part of the loop body: whether n is changed, and the cursor after.
Search(n, p, c) ==
    IF p.nil THEN [changed |-> FALSE, i |-> c]
    ELSE IF IsBlankParagraph(n) THEN [changed |-> FALSE, i |-> c]
    ELSE LET j == ScanPrevious(n, p, ScanStart(c))
         IN  IF j >= 0 THEN [changed |-> FALSE, i |-> j]
             ELSE [changed |-> TRUE, i |-> c]

----------------------------------------------------------------------------
(* The inputs the scan loop is run on. *)

\* A line of exactly MaxScanTokenSize characters.
LongLine == [text |-> <<"a">>, fill |-> MaxScanTokenSize - 1]

ParseLines ==
    { <<>>, <<" ">>, <<"a">>,
      <<">", "a">>, <<">">>,
      <<"*", " ", "a">>, <<"*", " ", " ", "<">>, <<"*", "a">>,
      <<"#", " ", "a", " ">>, <<"#", "#", " ", "b">>,
      <<"#", "#", "#", " ", "&">>, <<"#", "#", "#", "#", " ", "a">>,
      <<"=", ">", " ", "u", " ", " ", "l">>, <<"=", ">", " ", "u">>,
      <<GR, GR, GR, "a">>, <<GR, GR, GR>> }

InputLines == {InLine(s) : s \in ParseLines} \cup {LongLine}

\* The sequences over S of length at most n.
SeqsUpTo(S, n) == UNION {[1..m -> S] : m \in 0..n}

----------------------------------------------------------------------------
(* SpecParse: the scan loop of ParseGemtext, one line per step. *)

ParseIdle ==
    /\ input = <<>>
    /\ rdErr = Nil
    /\ pos = 0
    /\ result = <<>>
    /\ pre = FALSE
    /\ prev = 0
    /\ line = 0
    /\ ppc = "idle"
    /\ perr = Nil

RenderIdle ==
    /\ gt = <<>>
    /\ pgt = NilSlice
    /\ i = 0
    /\ k = 0
    /\ rpc = "idle"
    /\ out = <<>>
    /\ flags = <<>>
    /\ cursors = <<>>

ViewIdle ==
    /\ md = FALSE
    /\ fileText = <<>>
    /\ fileExists = FALSE
    /\ events = <<>>
    /\ errors = 0
    /\ nNotes = 0
    /\ dtimer = 0
    /\ timers = <<>>
    /\ th = <<>>
    /\ vgt = [ptr |-> 0, len |-> 0]
    /\ uiQueue = <<>>
    /\ shown = <<>>
    /\ uiPc = "idle"
    /\ crashed = FALSE
    /\ doneFloor = 0
    /\ docs = <<>>

InitParse ==
    /\ input \in SeqsUpTo(InputLines, MaxLines)
    /\ rdErr = Nil
    /\ pos = 0
    /\ result = ParserInit.result
    /\ pre = ParserInit.pre
    /\ prev = ParserInit.prev
    /\ line = ParserInit.line
    /\ ppc = ParserInit.pc
    /\ perr = Nil
    /\ RenderIdle
    /\ ViewIdle

CurrentParser == ParserState(result, pre, prev, line, ppc)

\* scn.Scan() returns true and the loop body runs on scn.Text().
ScanLine ==
    /\ ppc = "scan"
    /\ pos < Len(input)
    /\ ScanFits(input[pos + 1])
    /\ pos' = pos + 1
    /\ LET st == ParseLine(CurrentParser, input[pos + 1].text)
       IN  /\ result' = st.result
           /\ pre' = st.pre
           /\ prev' = st.prev
           /\ line' = st.line
           /\ ppc' = st.pc
    /\ UNCHANGED <<input, rdErr, perr, renderVars, viewVars>>

\* scn.Scan() returns false on a line that does not fit the buffer:
\* the loop ends and scn.Err() is bufio.ErrTooLong.
ScanTooLong ==
    /\ ppc = "scan"
    /\ pos < Len(input)
    /\ ~ScanFits(input[pos + 1])
    /\ ppc' = "returned"
    /\ perr' = "ErrTooLong"
    /\ UNCHANGED <<input, rdErr, pos, result, pre, prev, line, renderVars, viewVars>>

\* The reader reports a read failure: scn.Scan() returns false and scn.Err()
\* is that failure.
ScanReadError ==
    /\ ppc = "scan"
    /\ rdErr' = "EIO"
    /\ ppc' = "returned"
    /\ perr' = rdErr'
    /\ UNCHANGED <<input, pos, result, pre, prev, line, renderVars, viewVars>>

\* The reader is at its end: scn.Scan() returns false and scn.Err() is nil.
ScanEOF ==
    /\ ppc = "scan"
    /\ pos = Len(input)
    /\ ppc' = "returned"
    /\ perr' = Nil
    /\ UNCHANGED <<input, rdErr, pos, result, pre, prev, line, renderVars, viewVars>>

NextParse == ScanLine \/ ScanTooLong \/ ScanReadError \/ ScanEOF

SpecParse == InitParse /\ [][NextParse]_vars

----------------------------------------------------------------------------
(* SpecRender: the block loop of GemtextToHTML, one node per step. *)

\* Lines of every variant, with characters that need escaping.
RenderLines ==
    { <<>>, <<" ">>, <<"<">>,
      <<">", "&">>,
      <<"*", " ", "<">>,
      <<"#", "#", " ", "\"">>,
      <<"=", ">", " ", "<", " ", "&">>, <<"=", ">", " ", "'">>,
      <<GR, GR, GR, "a">> }

\* Few lines, for longer documents with repeated and reordered blocks.
DiffLines == { <<>>, <<"a">>, <<"*", " ", "a">>, <<">", "a">>, <<GR, GR, GR>> }

\* A first render, or a render against the parse of a short text.
InitRenderShort ==
    /\ gt \in {ParseGemtext(t) : t \in SeqsUpTo(RenderLines, MaxRenderLines)}
    /\ pgt \in {NilSlice} \cup
               {Slice(ParseGemtext(t)) : t \in SeqsUpTo(RenderLines, MaxPrevLines)}

\* A render against a second parse of the same text.
InitRenderSame ==
    \E t \in SeqsUpTo(RenderLines, MaxRenderLines) :
        /\ gt = ParseGemtext(t)
        /\ pgt = Slice(ParseGemtext(t))

\* A render of a longer document against another.
InitRenderLong ==
    /\ gt \in {ParseGemtext(t) : t \in SeqsUpTo(DiffLines, MaxDiffLines)}
    /\ pgt \in {Slice(ParseGemtext(t)) : t \in SeqsUpTo(DiffLines, MaxDiffLines)}

InitRender ==
    /\ InitRenderShort \/ InitRenderSame \/ InitRenderLong
    /\ i = 0
    /\ k = 0
    /\ rpc = "loop"
    /\ out = <<>>
    /\ flags = <<>>
    /\ cursors = <<>>
    /\ ParseIdle
    /\ ViewIdle

\* One iteration of for _, n := range gt.
RenderNode ==
    /\ rpc = "loop"
    /\ k < Len(gt)
    /\ LET n == gt[k + 1]
           s == Search(n, pgt, i)
       IN  /\ i' = s.i
           /\ flags' = Append(flags, s.changed)
           /\ cursors' = Append(cursors, i)
           /\ \E open \in ContainerOpen(n, s.changed) :
                  out' = out \o <<open>> \o NodeBody(n)
    /\ k' = k + 1
    /\ UNCHANGED <<gt, pgt, rpc, parseVars, viewVars>>

\* return nil
RenderReturn ==
    /\ rpc = "loop"
    /\ k = Len(gt)
    /\ rpc' = "returned"
    /\ UNCHANGED <<gt, pgt, i, k, out, flags, cursors, parseVars, viewVars>>

NextRender == RenderNode \/ RenderReturn

SpecRender == InitRender /\ [][NextRender]_vars

----------------------------------------------------------------------------
(* GemtextToHTML as a whole *)

\* Everything GemtextToHTML can write for the blocks g against p with the
\* cursor at c: one output for each order in which writeEl may visit the
\* attributes.
RECURSIVE Outputs(_, _, _)
Outputs(g, p, c) ==
    IF g = <<>> THEN {<<>>}
    ELSE LET n == Head(g)
             s == Search(n, p, c)
         IN  {<<open>> \o NodeBody(n) \o rest :
                 open \in ContainerOpen(n, s.changed),
                 rest \in Outputs(Tail(g), p, s.i)}

GemtextToHTML(g, p) == Outputs(g, p, 0)

\* Whether GemtextToHTML judges some block of g changed.
RECURSIVE SomeChanged(_, _, _)
SomeChanged(g, p, c) ==
    /\ g # <<>>
    /\ LET s == Search(Head(g), p, c)
       IN  s.changed \/ SomeChanged(Tail(g), p, s.i)

----------------------------------------------------------------------------
(* SpecView: the view of a source file.                                    *)
(* Thread 0 is the window's thread, which runs the onReady callback and    *)
(* the functions given to wv.Dispatch; thread n > 0 is the goroutine that  *)
(* time.AfterFunc starts when the n-th timer fires.  The window is not     *)
(* closed in this model, so v.fsw.Events stays open.                       *)

Threads == 0..MaxNotes

ViewTexts ==
    { << InLine(<<"a">>) >>,
      << InLine(<<"b">>), InLine(<<"a">>) >> }

IdleCall ==
    [pc |-> "idle", serial |-> 0, hdr |-> [ptr |-> 0, len |-> 0],
     md |-> FALSE, first |-> Nil, expect |-> 0, floor |-> 0]

InitView ==
    /\ md \in BOOLEAN
    /\ fileText \in ViewTexts
    /\ fileExists = TRUE
    /\ events = <<>>
    /\ errors = 0
    /\ nNotes = 0
    /\ dtimer = 0
    /\ timers = <<>>
    /\ th = [t \in Threads |-> IdleCall]
    /\ vgt = [ptr |-> 0, len |-> 0]
    /\ uiQueue = <<>>
    /\ shown = <<>>
    /\ uiPc = "loading"
    /\ crashed = FALSE
    /\ doneFloor = 0
    /\ docs = <<>>
    /\ ParseIdle
    /\ RenderIdle

\* The call of View.render by thread t has started and has not returned.
InRender(t) ==
    th[t].pc \in {"open", "read", "render", "store", "store2", "dispatch"}

\* The call c once it has returned: what it rendered is kept (serial, md),
\* the rest of its frame is gone.
Returned(c, how) == [IdleCall EXCEPT !.pc = how, !.serial = c.serial, !.md = c.md]

\* Thread t calls v.render().
BeginRender(t) ==
    th' = [th EXCEPT ![t] = [IdleCall EXCEPT !.pc = "open", !.expect = Len(docs)]]

(* ---- the file and its watcher (fsnotify) ---- *)

\* The source file is written, or created if it was missing.
WriteFile ==
    /\ ~crashed /\ nNotes < MaxNotes
    /\ \E t \in ViewTexts : fileText' = t
    /\ fileExists' = TRUE
    /\ events' = Append(events,
           [name |-> "source", op |-> IF fileExists THEN "Write" ELSE "Create"])
    /\ nNotes' = nNotes + 1
    /\ UNCHANGED <<doneFloor, md, errors, dtimer, timers, th, vgt, uiQueue, shown, uiPc,
                   crashed, docs, parseVars, renderVars>>

\* The source file is removed.
RemoveFile ==
    /\ ~crashed /\ nNotes < MaxNotes
    /\ fileExists
    /\ fileExists' = FALSE
    /\ events' = Append(events, [name |-> "source", op |-> "Remove"])
    /\ nNotes' = nNotes + 1
    /\ UNCHANGED <<doneFloor, md, fileText, errors, dtimer, timers, th, vgt, uiQueue, shown,
                   uiPc, crashed, docs, parseVars, renderVars>>

\* Another file of the watched directory is written.
WriteOtherFile ==
    /\ ~crashed /\ nNotes < MaxNotes
    /\ events' = Append(events, [name |-> "other", op |-> "Write"])
    /\ nNotes' = nNotes + 1
    /\ UNCHANGED <<doneFloor, md, fileText, fileExists, errors, dtimer, timers, th, vgt,
                   uiQueue, shown, uiPc, crashed, docs, parseVars, renderVars>>

\* The watcher reports an error.
WatcherFails ==
    /\ ~crashed /\ nNotes < MaxNotes
    /\ errors' = errors + 1
    /\ nNotes' = nNotes + 1
    /\ UNCHANGED <<doneFloor, md, fileText, fileExists, events, dtimer, timers, th, vgt,
                   uiQueue, shown, uiPc, crashed, docs, parseVars, renderVars>>

(* ---- debouncer.add ---- *)

\* The debouncer that leaves the previous timer running.
LeaveTimer(ts, n) == ts

\* d.timer.Stop(): a timer that has not fired will not fire.
StopTimer(ts, n) ==
    IF n # 0 /\ ts[n].state = "armed"
    THEN [ts EXCEPT ![n] = [state |-> "stopped", rem |-> 0]]
    ELSE ts

\* if d.timer != nil { d.timer.Stop() }; d.timer = time.AfterFunc(d.after, f)
DebouncerAdd ==
    /\ timers' = Append(StopTimer(timers, dtimer), [state |-> "armed", rem |-> After])
    /\ dtimer' = Len(timers) + 1

(* ---- View.watch ---- *)

\* filepath.Clean(event.Name) == v.source && (Has(Write) || Has(Create))
IsSourceChange(e) == e.name = "source" /\ e.op \in {"Write", "Create"}

\* case event, ok := <-v.fsw.Events
WatchEvent ==
    /\ ~crashed
    /\ events # <<>>
    /\ events' = Tail(events)
    /\ IF IsSourceChange(Head(events))
       THEN DebouncerAdd
       ELSE UNCHANGED <<doneFloor, dtimer, timers>>
    /\ UNCHANGED <<doneFloor, md, fileText, fileExists, errors, nNotes, th, vgt, uiQueue,
                   shown, uiPc, crashed, docs, parseVars, renderVars>>

\* case err, ok := <-v.fsw.Errors
WatchError ==
    /\ ~crashed
    /\ errors > 0
    /\ errors' = errors - 1
    /\ UNCHANGED <<doneFloor, md, fileText, fileExists, events, nNotes, dtimer, timers, th,
                   vgt, uiQueue, shown, uiPc, crashed, docs, parseVars, renderVars>>

(* ---- time.AfterFunc ---- *)

\* TickMs milliseconds pass.
Tick ==
    /\ ~crashed
    /\ \E n \in DOMAIN timers : timers[n].state = "armed" /\ timers[n].rem > 0
    /\ timers' = [n \in DOMAIN timers |->
           IF timers[n].state = "armed"
           THEN [timers[n] EXCEPT !.rem = IF @ > TickMs THEN @ - TickMs ELSE 0]
           ELSE timers[n]]
    /\ UNCHANGED <<doneFloor, md, fileText, fileExists, events, errors, nNotes, dtimer, th,
                   vgt, uiQueue, shown, uiPc, crashed, docs, parseVars, renderVars>>

\* The n-th timer fires: its function runs in a goroutine of its own,
\* func() { err := v.render(); ... }.
TimerFires(n) ==
    /\ ~crashed
    /\ timers[n].state = "armed" /\ timers[n].rem = 0
    /\ timers' = [timers EXCEPT ![n].state = "fired"]
    /\ BeginRender(n)
    /\ UNCHANGED <<doneFloor, md, fileText, fileExists, events, errors, nNotes, dtimer, vgt,
                   uiQueue, shown, uiPc, crashed, docs, parseVars, renderVars>>

(* ---- the window ---- *)

\* The page has loaded and its script calls onReady():
\* func() { err = view.render(); ... } on the window's thread.
OnReady ==
    /\ ~crashed
    /\ uiPc = "loading"
    /\ uiPc' = "ready"
    /\ BeginRender(0)
    /\ UNCHANGED <<doneFloor, md, fileText, fileExists, events, errors, nNotes, dtimer,
                   timers, vgt, uiQueue, shown, crashed, docs, parseVars, renderVars>>

\* The window's thread runs a dispatched function, v.wv.Eval(eval): the page
\* defines setContent once its script has run.
RunDispatched ==
    /\ ~crashed
    /\ uiQueue # <<>>
    /\ ~InRender(0)
    /\ uiQueue' = Tail(uiQueue)
    /\ shown' = IF uiPc = "ready" THEN <<Head(uiQueue)>> ELSE shown
    /\ UNCHANGED <<doneFloor, md, fileText, fileExists, events, errors, nNotes, dtimer,
                   timers, th, vgt, uiPc, crashed, docs, parseVars, renderVars>>

(* ---- View.render, statement by statement ---- *)

\* inputf, err := os.Open(v.source); if err != nil { return err }
RenderOpen(t) ==
    /\ ~crashed
    /\ th[t].pc = "open"
    /\ th' = [th EXCEPT ![t] = IF fileExists THEN [@ EXCEPT !.pc = "read"]
                            ELSE Returned(@, "failed")]
    /\ UNCHANGED <<doneFloor, md, fileText, fileExists, events, errors, nNotes, dtimer,
                   timers, vgt, uiQueue, shown, uiPc, crashed, docs, parseVars,
                   renderVars>>

\* The read of the file fails: io.ReadAll or ParseGemtext returns the error
\* of the reader, and render returns it.
RenderReadFails(t) ==
    /\ ~crashed
    /\ th[t].pc = "read"
    /\ th' = [th EXCEPT ![t] = Returned(@, "failed")]
    /\ UNCHANGED <<doneFloor, md, fileText, fileExists, events, errors, nNotes, dtimer,
                   timers, vgt, uiQueue, shown, uiPc, crashed, docs, parseVars,
                   renderVars>>

\* v.md != nil: io.ReadAll(inputf) and v.md.Convert(input, &content)
RenderMarkdown(t) ==
    /\ ~crashed
    /\ th[t].pc = "read"
    /\ md
    /\ th' = [th EXCEPT ![t].pc = "dispatch", ![t].md = TRUE]
    /\ UNCHANGED <<doneFloor, md, fileText, fileExists, events, errors, nNotes, dtimer,
                   timers, vgt, uiQueue, shown, uiPc, crashed, docs, parseVars,
                   renderVars>>

\* gt, err := ParseGemtext(inputf); if err != nil { return err }
RenderParse(t) ==
    /\ ~crashed
    /\ th[t].pc = "read"
    /\ ~md
    /\ LET r == ParseReader(fileText)
       IN  IF r.err # Nil
           THEN /\ th' = [th EXCEPT ![t] = Returned(@, "failed")]
                /\ docs' = docs
           ELSE /\ th' = [th EXCEPT ![t].pc = "render", ![t].serial = Len(docs) + 1]
                /\ docs' = Append(docs, r.result)
    /\ UNCHANGED <<doneFloor, md, fileText, fileExists, events, errors, nNotes, dtimer,
                   timers, vgt, uiQueue, shown, uiPc, crashed, parseVars, renderVars>>

\* What lies beyond the end of an array.
Garbage == [type |-> "Garbage", line |-> 0]

\* The slice a header of v.gt denotes.  A header read while another thread
\* writes it may pair the pointer of one Document with the length of another:
\* when the length exceeds the array, the slice runs into other memory.
SliceOf(h) ==
    IF h.ptr = 0 THEN NilSlice
    ELSE Slice([n \in 1..h.len |->
                   IF n <= Len(docs[h.ptr]) THEN docs[h.ptr][n] ELSE Garbage])

Overruns(h) == h.ptr # 0 /\ h.len > Len(docs[h.ptr])

\* The content the call of render by thread t can hold between its rendering
\* and its return:
\* what v.md.Convert wrote, or what GemtextToHTML wrote for the Document
\* th[t].serial against the baseline it read, th[t].hdr.
ContentOf(t) ==
    IF th[t].md THEN {<<RawTok("markdown")>>}
    ELSE GemtextToHTML(docs[th[t].serial], SliceOf(th[t].hdr))

\* GemtextToHTML(gt, v.gt, &content): v.gt is read without synchronisation.
\* The call is recorded by its arguments, th[t].serial and th[t].hdr.
RenderHTML(t) ==
    /\ ~crashed
    /\ th[t].pc = "render"
    /\ th' = [th EXCEPT ![t].pc = "store", ![t].hdr = vgt, ![t].floor = doneFloor]
    /\ UNCHANGED <<doneFloor, md, fileText, fileExists, events, errors, nNotes, dtimer,
                   timers, vgt, uiQueue, shown, uiPc, crashed, docs, parseVars,
                   renderVars>>

\* GemtextToHTML scans past the end of the array of a torn v.gt and the
\* process dies of the fault.
RenderFaults(t) ==
    /\ ~crashed
    /\ th[t].pc = "render"
    /\ Overruns(vgt)
    /\ SomeChanged(docs[th[t].serial], SliceOf(vgt), 0)
    /\ crashed' = TRUE
    /\ UNCHANGED <<doneFloor, md, fileText, fileExists, events, errors, nNotes, dtimer,
                   timers, th, vgt, uiQueue, shown, uiPc, docs, parseVars,
                   renderVars>>

\* The words of the slice header of th[t].gt.
HeaderWord(t, w) == IF w = "ptr" THEN th[t].serial ELSE Len(docs[th[t].serial])

\* v.gt = gt, the first word written: the assignment is not atomic.
RenderStoreFirst(t) ==
    /\ ~crashed
    /\ th[t].pc = "store"
    /\ \E w \in {"ptr", "len"} :
           /\ vgt' = [vgt EXCEPT ![w] = HeaderWord(t, w)]
           /\ th' = [th EXCEPT ![t].pc = "store2", ![t].first = w]
    /\ UNCHANGED <<doneFloor, md, fileText, fileExists, events, errors, nNotes, dtimer,
                   timers, uiQueue, shown, uiPc, crashed, docs, parseVars,
                   renderVars>>

\* v.gt = gt, the other word.
RenderStoreSecond(t) ==
    /\ ~crashed
    /\ th[t].pc = "store2"
    /\ LET w == IF th[t].first = "ptr" THEN "len" ELSE "ptr"
       IN  vgt' = [vgt EXCEPT ![w] = HeaderWord(t, w)]
    /\ th' = [th EXCEPT ![t].pc = "dispatch", ![t].first = Nil]
    /\ UNCHANGED <<doneFloor, md, fileText, fileExists, events, errors, nNotes, dtimer,
                   timers, uiQueue, shown, uiPc, crashed, docs, parseVars,
                   renderVars>>

\* contentjson, err := json.Marshal(...); v.wv.Dispatch(func() { v.wv.Eval(eval) });
\* return nil
RenderDispatch(t) ==
    /\ ~crashed
    /\ th[t].pc = "dispatch"
    /\ uiQueue' = Append(uiQueue, t)
    /\ th' = [th EXCEPT ![t] = Returned(th[t], "done")]
    /\ doneFloor' = IF th[t].hdr.ptr > doneFloor THEN th[t].hdr.ptr ELSE doneFloor
    /\ UNCHANGED <<md, fileText, fileExists, events, errors, nNotes, dtimer,
                   timers, vgt, shown, uiPc, crashed, docs, parseVars, renderVars>>

NextView ==
    \/ WriteFile
    \/ RemoveFile
    \/ WriteOtherFile
    \/ WatcherFails
    \/ WatchEvent
    \/ WatchError
    \/ Tick
    \/ OnReady
    \/ RunDispatched
    \/ \E n \in DOMAIN timers : TimerFires(n)
    \/ \E t \in Threads : RenderOpen(t)
    \/ \E t \in Threads : RenderReadFails(t)
    \/ \E t \in Threads : RenderMarkdown(t)
    \/ \E t \in Threads : RenderParse(t)
    \/ \E t \in Threads : RenderHTML(t)
    \/ \E t \in Threads : RenderFaults(t)
    \/ \E t \in Threads : RenderStoreFirst(t)
    \/ \E t \in Threads : RenderStoreSecond(t)
    \/ \E t \in Threads : RenderDispatch(t)

SpecView == InitView /\ [][NextView]_vars

\* The view with the watch goroutine scheduled, the clock advancing and the
\* timers firing.
SpecViewFair ==
    /\ InitView
    /\ [][NextView]_vars
    /\ WF_vars(WatchEvent)
    /\ WF_vars(Tick)
    /\ WF_vars(\E n \in DOMAIN timers : TimerFires(n))

----------------------------------------------------------------------------
(* SpecDebounce: the watch goroutine, the debouncer and its timers alone.  *)
(* The functions the timers start are taken no further than their first    *)
(* statement.  The watch goroutine is scheduled and time passes, so a      *)
(* pending event is received, the clock advances while a timer is armed,   *)
(* and a timer that has expired and is not stopped fires.                  *)

\* A timer made by time.AfterFunc fires.
AfterFuncFires == \E n \in DOMAIN timers : TimerFires(n)

NextDebounce ==
    \/ WriteFile
    \/ RemoveFile
    \/ WriteOtherFile
    \/ WatchEvent
    \/ Tick
    \/ AfterFuncFires

SpecDebounce ==
    /\ InitView
    /\ [][NextDebounce]_vars
    /\ WF_vars(WatchEvent)
    /\ WF_vars(Tick)
    /\ WF_vars(AfterFuncFires)

----------------------------------------------------------------------------
(* Claims about ParseGemtext, checked under SpecParse. *)

ParseReturned == ppc = "returned"

\* The line numbers of the paragraphs ps strictly increase from at least l.
LinesIncreaseFrom(l, ps) ==
    /\ \A n \in 1..Len(ps) : ps[n].line >= l
    /\ \A n \in 1..(Len(ps) - 1) : ps[n].line < ps[n + 1].line

Children(n) ==
    CASE n.type = "List" -> n.Items
      [] n.type \in {"Quote", "Pre"} -> n.Paragraphs
      [] OTHER -> <<>>

\* C7: the Document returned has at most as many blocks as the input has
\* lines; the line numbers of its blocks are at least 1 and strictly increase
\* in document order; within a List, Quote or Preformatted block the line
\* numbers of the items strictly increase and are not below the block's own.
C7_BlockLinesIncrease ==
    ParseReturned =>
        /\ Len(result) <= Len(input)
        /\ \A n \in 1..Len(result) : result[n].line >= 1
        /\ \A n \in 1..(Len(result) - 1) : result[n].line < result[n + 1].line
        /\ \A n \in 1..Len(result) :
               LinesIncreaseFrom(result[n].line, Children(result[n]))

\* A three-line input parsed to its end into a Preformatted block with two
\* content lines.
C7_Witness ==
    /\ ParseReturned /\ perr = Nil /\ Len(input) = 3
    /\ Len(result) = 1 /\ result[1].type = "Pre"
    /\ Len(result[1].Paragraphs) = 2

\* C8: ParseGemtext returns a non-nil error exactly when the reader has
\* reported a read failure; no content makes it fail.
C8_ErrorOnlyOnReadFailure ==
    ParseReturned => (perr # Nil <=> rdErr # Nil)

\* The text of the j-th line of the input.
LineText(j) == input[j].text

\* Whether the j-th line is read in preformatted mode: the mode is normal at
\* the first line and changes after every line starting with the marker.
RECURSIVE InPreMode(_)
InPreMode(j) ==
    IF j = 1 THEN FALSE
    ELSE IF HasPrefix(LineText(j - 1), Fence) THEN ~InPreMode(j - 1)
         ELSE InPreMode(j - 1)

\* The j-th line is a list-item line (mark "*") or a quote line (mark ">")
\* read outside preformatted mode.
IsRunLine(mark, j) ==
    /\ j \in 1..pos
    /\ ~InPreMode(j)
    /\ IF mark = "*" THEN HasPrefix(LineText(j), <<"*", " ">>)
                     ELSE HasPrefix(LineText(j), <<">">>)

\* The items ps, the first on line l, are the lines of one maximal run of
\* lines of the kind mark, in order.
IsMaximalRun(mark, l, ps) ==
    /\ Len(ps) >= 1
    /\ \A q \in DOMAIN ps :
           /\ ps[q].line = l + q - 1
           /\ IsRunLine(mark, ps[q].line)
           /\ IF mark = "*"
              THEN /\ \E c \in 2..Len(LineText(ps[q].line)) :
                          ps[q].Text = From(LineText(ps[q].line), c)
                   /\ (ps[q].Text = <<>> \/ Head(ps[q].Text) \notin {" ", "\t"})
              ELSE ps[q].Text = LineText(ps[q].line)
    /\ ~IsRunLine(mark, l - 1)
    /\ ~IsRunLine(mark, l + Len(ps))

\* C19: every List block of the Document is one maximal run of list-item
\* lines read outside preformatted mode, every such line is an item of a List
\* block, and likewise for Quote blocks and quote lines; no two adjacent
\* blocks are both Lists or both Quotes.
C19_RunsAreMaximal ==
    /\ \A n \in DOMAIN result :
           /\ result[n].type = "List" =>
                  IsMaximalRun("*", result[n].line, result[n].Items)
           /\ result[n].type = "Quote" =>
                  IsMaximalRun(">", result[n].line, result[n].Paragraphs)
    /\ \A j \in 1..pos :
           /\ IsRunLine("*", j) =>
                  \E n \in DOMAIN result : result[n].type = "List"
                      /\ \E q \in DOMAIN result[n].Items : result[n].Items[q].line = j
           /\ IsRunLine(">", j) =>
                  \E n \in DOMAIN result : result[n].type = "Quote"
                      /\ \E q \in DOMAIN result[n].Paragraphs :
                             result[n].Paragraphs[q].line = j
    /\ \A n \in 1..(Len(result) - 1) :
           ~(result[n].type = result[n + 1].type /\ result[n].type \in {"List", "Quote"})

\* A three-line input parsed to its end: two list-item lines in one List and
\* then a line of another kind.
C19_Witness ==
    /\ ParseReturned /\ perr = Nil /\ Len(input) = 3
    /\ Len(result) = 2
    /\ result[1].type = "List" /\ Len(result[1].Items) = 2
    /\ result[2].type # "List"

\* What the step that reads the line text makes of the Document in
\* preformatted mode, and what it must do on a marker line outside that mode.
PreStep(text) ==
    IF pre
    THEN IF HasPrefix(text, Fence)
         THEN ~pre' /\ result' = result
         ELSE /\ pre'
              /\ result' = [result EXCEPT ![Len(result)].Paragraphs =
                               Append(@, Paragraph(line + 1, text))]
    ELSE IF HasPrefix(text, Fence)
         THEN /\ pre'
              /\ result' = Append(result, Pre(line + 1, From(text, 3), <<>>))
         ELSE ~pre'

\* C20: in preformatted mode the most recent block is a Preformatted block
\* and the last block of the result, and the scan never fails on it; a line
\* read in that mode is appended to it verbatim and makes no block, unless it
\* starts with the marker, when it ends the mode and stores nothing; the line
\* that opens the mode makes a Preformatted block with no content line, whose
\* alt-text is the rest of that line.
C20_PreformattedMode ==
    /\ [](pre => (prev = Len(result) /\ prev # 0 /\ result[prev].type = "Pre"))
    /\ [](ppc # "panic")
    /\ [][pos' = pos + 1 => PreStep(LineText(pos + 1))]_vars

\* A Preformatted block opened with alt-text, a quote line read as its one
\* content line, and the mode ended by a marker line.
C20_Witness ==
    /\ ParseReturned /\ Len(input) = 3 /\ ~pre
    /\ Len(result) = 1 /\ result[1].type = "Pre"
    /\ result[1].Alt = <<"a">>
    /\ Len(result[1].Paragraphs) = 1
    /\ result[1].Paragraphs[1].Text = <<">", "a">>

----------------------------------------------------------------------------
(* Claims about GemtextToHTML, checked under SpecRender. *)

RenderReturned == rpc = "returned"

\* A Paragraph whose text is empty or holds only whitespace.
IsBlank(n) ==
    n.type = "Paragraph" /\ \A c \in DOMAIN n.Text : n.Text[c] \in {" ", "\t"}

HasClassChanged(t) ==
    /\ t.tok = "open"
    /\ \E a \in DOMAIN t.attrs : t.attrs[a] = <<"class", ClassChanged>>

\* The cursor after node n was processed.
CursorAfter(n) == IF n < k THEN cursors[n + 1] ELSE i

\* The previous blocks at index c or above (0-based) that equal n.
EqualFrom(n, c) ==
    {j \in c..(Len(pgt.nodes) - 1) : Equal(n, pgt.nodes[j + 1])}

\* C1: rendering a Document against a second parse of the same text judges
\* no block changed and writes no element with class="changed".
C1_NoChange ==
    (~pgt.nil /\ pgt.nodes = gt) =>
        /\ \A n \in DOMAIN flags : ~flags[n]
        /\ \A t \in DOMAIN out : ~HasClassChanged(out[t])

\* A finished render of a three-block Document against itself, with a
\* repeated block followed by a blank line.
C1_Witness ==
    /\ RenderReturned /\ ~pgt.nil /\ pgt.nodes = gt
    /\ Len(gt) = 3 /\ Equal(gt[1], gt[2]) /\ IsBlank(gt[3])

Entities ==
    { <<"&", "a", "m", "p", ";">>, <<"&", "#", "3", "9", ";">>,
      <<"&", "l", "t", ";">>, <<"&", "g", "t", ";">>,
      <<"&", "#", "3", "4", ";">> }

\* No '<', '>' or quote character in s, and every '&' starts an entity.
IsEscaped(s) ==
    /\ \A n \in DOMAIN s : s[n] \notin {"<", ">", "\"", "'"}
    /\ \A n \in DOMAIN s :
           s[n] = "&" => \E e \in Entities : SubSeq(s, n, n + Len(e) - 1) = e

\* C2: every text written for a Paragraph, a Link (href and visible text), a
\* Heading, a List item or a Quote line is escaped, and the content lines of
\* a Preformatted block are written verbatim.
C2_TextEscaped ==
    \A t \in DOMAIN out :
        /\ (out[t].tok = "text" /\ out[t].of # "Pre") => IsEscaped(out[t].s)
        /\ (out[t].tok = "text" /\ out[t].of = "Pre") => out[t].s = out[t].src
        /\ out[t].tok = "open" =>
               \A a \in DOMAIN out[t].attrs : IsEscaped(out[t].attrs[a][2])

AnchoredTags ==
    {"p", "div", "h1", "h2", "h3", "ul", "li", "blockquote", "pre"}

\* C3: every block-level and line-level element written carries a data-line
\* attribute equal to the line number of its block or line.
C3_LineAnchors ==
    \A t \in DOMAIN out :
        (out[t].tok = "open" /\ out[t].tag \in AnchoredTags) =>
            \E a \in DOMAIN out[t].attrs :
                out[t].attrs[a] = <<"data-line", Itoa(out[t].line)>>

\* The single-forward-cursor rule, as the specification states it: the
\* verdict on block n with the cursor at c, and the cursor after it.
RuleStep(n, c) ==
    IF pgt.nil \/ IsBlank(n) THEN [changed |-> FALSE, i |-> c]
    ELSE IF EqualFrom(n, c) # {}
         THEN [changed |-> FALSE,
               i |-> CHOOSE j \in EqualFrom(n, c) : \A m \in EqualFrom(n, c) : j <= m]
         ELSE [changed |-> TRUE, i |-> c]

\* The rule run over the first m blocks of gt, from cursor 0.
RECURSIVE Rule(_)
Rule(m) ==
    IF m = 0 THEN [flags |-> <<>>, i |-> 0]
    ELSE LET r == Rule(m - 1)
             s == RuleStep(gt[m], r.i)
         IN  [flags |-> Append(r.flags, s.changed), i |-> s.i]

\* C4: the blocks judged changed, and the cursor, are those of the
\* single-forward-cursor rule.
C4_ForwardCursorRule ==
    /\ flags = Rule(k).flags
    /\ i = Rule(k).i

\* A finished render with a changed block, an unchanged block and the cursor
\* moved.
C4_Witness ==
    /\ RenderReturned /\ ~pgt.nil /\ i > 0
    /\ \E a, b \in DOMAIN flags : flags[a] /\ ~flags[b] /\ ~IsBlank(gt[b])

\* C5: a blank Paragraph is never judged changed and leaves the cursor where
\* it was, and the element written for it carries no changed flag.
C5_BlankParagraphImmunity ==
    /\ \A n \in 1..k :
           IsBlank(gt[n]) => ~flags[n] /\ CursorAfter(n) = cursors[n]
    /\ \A t \in DOMAIN out :
           (out[t].tok = "open" /\ out[t].of = "Paragraph"
                /\ \E n \in 1..k : IsBlank(gt[n]) /\ gt[n].line = out[t].line)
               => ~HasClassChanged(out[t])

\* A whitespace-only Paragraph rendered against a baseline that holds no
\* equal block.
C5_Witness ==
    /\ RenderReturned /\ ~pgt.nil
    /\ \E n \in 1..k :
           /\ gt[n].type = "Paragraph" /\ gt[n].Text = <<" ">>
           /\ EqualFrom(gt[n], 0) = {}

\* Previous = [A, B] and new = [B, A], A and B not blank and not equal.
Swapped ==
    /\ ~pgt.nil /\ Len(gt) = 2 /\ Len(pgt.nodes) = 2
    /\ Equal(gt[1], pgt.nodes[2]) /\ Equal(gt[2], pgt.nodes[1])
    /\ ~Equal(gt[1], gt[2])
    /\ ~IsBlank(gt[1]) /\ ~IsBlank(gt[2])

\* C6: the cursor never moves backwards; a block whose equal previous blocks
\* all lie below the cursor is judged changed; for previous = [A, B] and
\* new = [B, A] the render judges B unchanged and A changed.
C6_CursorNeverBacktracks ==
    /\ \A n \in 1..k : CursorAfter(n) >= cursors[n]
    /\ \A n \in 1..k :
           (~pgt.nil /\ ~IsBlank(gt[n]) /\ EqualFrom(gt[n], cursors[n]) = {})
               => flags[n]
    /\ (RenderReturned /\ Swapped) => flags = <<FALSE, TRUE>>

\* A finished render of [B, A] against [A, B].
C6_Witness == RenderReturned /\ Swapped /\ EqualFrom(gt[2], 0) # {}

\* C12: a first render is idempotent: GemtextToHTML(gt, nil, w) can write one
\* output only, so two calls on the same Document write the same bytes.
C12_FirstRenderIdempotent ==
    /\ Cardinality(GemtextToHTML(gt, NilSlice)) = 1
    /\ (RenderReturned /\ pgt.nil) => out \in GemtextToHTML(gt, NilSlice)

\* A finished first render of a Document with a List and a Link.
C12_Witness ==
    /\ RenderReturned /\ pgt.nil /\ Len(gt) = 2
    /\ gt[1].type = "List" /\ gt[2].type = "Link"
    /\ Len(out) > 2

\* The opening tag of the container element of a block.
IsContainer(t) ==
    /\ t.tok = "open"
    /\ \/ t.of = "Paragraph" /\ t.tag = "p"
       \/ t.of = "Link" /\ t.tag = "div"
       \/ t.of = "Heading" /\ t.tag \in {"h1", "h2", "h3"}
       \/ t.of = "List" /\ t.tag = "ul"
       \/ t.of = "Quote" /\ t.tag = "blockquote"
       \/ t.of = "Pre" /\ t.tag = "pre"

\* The container elements written for block m carry the changed flag exactly
\* when the block is judged changed and is not of a variant in never.
FlagsAgree(never) ==
    \A m \in 1..k : \A t \in DOMAIN out :
        (IsContainer(out[t]) /\ out[t].line = gt[m].line) =>
            (HasClassChanged(out[t]) <=> (flags[m] /\ gt[m].type \notin never))

\* A block of variant v is judged changed.
ChangedBlock(v) == \E m \in 1..k : flags[m] /\ gt[m].type = v

\* C13 as stated: the containers of Quote and Preformatted blocks never carry
\* the changed flag; those of Paragraph, Link, Heading and List blocks carry it
\* exactly when the block is judged changed.
C13_ChangedFlagAsymmetry == FlagsAgree({"Quote", "Pre"})

\* C13 as amended: the container of a Quote block never carries the changed
\* flag; those of Paragraph, Link, Heading, List and Preformatted blocks carry
\* it exactly when the block is judged changed.
C13_QuoteOnlyAsymmetry == FlagsAgree({"Quote"})

\* A finished render in which a Quote, a Preformatted block and a Paragraph
\* are judged changed.
C13_Witness ==
    /\ RenderReturned
    /\ ChangedBlock("Quote") /\ ChangedBlock("Pre") /\ ChangedBlock("Paragraph")

\* C17: also with a baseline, GemtextToHTML(gt, pgt, w) can write one output
\* only, and the call changes neither gt nor pgt.
C17_RenderPure ==
    /\ [](RenderReturned => GemtextToHTML(gt, pgt) = {out})
    /\ [][gt' = gt /\ pgt' = pgt]_vars

\* The tags left open after the pieces toks are written with the tags of
\* stack open, the innermost first; <<"unbalanced">> when a closing tag does
\* not close the innermost open element.
RECURSIVE Nesting(_, _)
Nesting(toks, stack) ==
    IF toks = <<>> THEN stack
    ELSE LET t == Head(toks) IN
         IF t.tok = "open" THEN Nesting(Tail(toks), <<t.tag>> \o stack)
         ELSE IF t.tok = "close"
              THEN IF stack # <<>> /\ Head(stack) = t.tag
                   THEN Nesting(Tail(toks), Tail(stack))
                   ELSE <<"unbalanced">>
              ELSE Nesting(Tail(toks), stack)

\* The elements with tag tag written for the line l.
ElementsAt(tag, l) ==
    {t \in DOMAIN out : out[t].tok = "open" /\ out[t].tag = tag /\ out[t].line = l}

\* C18: the tags written are balanced, every element being closed before the
\* one it lies in; each List item is exactly one li element and each Quote
\* line exactly one p element.
C18_WellNested ==
    /\ Nesting(out, <<>>) = <<>>
    /\ \A m \in 1..k :
           /\ gt[m].type = "List" =>
                  \A q \in DOMAIN gt[m].Items :
                      Cardinality(ElementsAt("li", gt[m].Items[q].line)) = 1
           /\ gt[m].type = "Quote" =>
                  \A q \in DOMAIN gt[m].Paragraphs :
                      Cardinality(ElementsAt("p", gt[m].Paragraphs[q].line)) = 1

\* The blocks of the two Documents of a render.
Nodes ==
    {gt[n] : n \in DOMAIN gt} \cup {pgt.nodes[n] : n \in DOMAIN pgt.nodes}

Texts(ps) == [q \in DOMAIN ps |-> ps[q].Text]

\* The variant of a block and the content the claim names for it.
Content(n) ==
    CASE n.type = "Paragraph" -> <<n.type, n.Text>>
      [] n.type = "Link"      -> <<n.type, n.URL, n.Label>>
      [] n.type = "Heading"   -> <<n.type, n.Level, n.Text>>
      [] n.type = "List"      -> <<n.type, Texts(n.Items)>>
      [] n.type \in {"Quote", "Pre"} -> <<n.type, Texts(n.Paragraphs)>>

MovedLines(ps, d) == [q \in DOMAIN ps |-> [ps[q] EXCEPT !.line = ps[q].line + d]]

\* The block n as it would be parsed d lines further down, with d more
\* lines before each of its items.
Moved(n, d) ==
    LET m == [n EXCEPT !.line = n.line + d] IN
    IF n.type = "List" THEN [m EXCEPT !.Items = MovedLines(n.Items, d + d)]
    ELSE IF n.type \in {"Quote", "Pre"}
         THEN [m EXCEPT !.Paragraphs = MovedLines(n.Paragraphs, d + d)]
         ELSE m

\* C14: Equal is false for blocks of different variants, is decided by the
\* content alone for blocks of the same variant, does not depend on the line
\* number of either block or of their items, and is reflexive, symmetric and
\* transitive.
C14_EqualByContent ==
    RenderReturned =>
        \A a, b \in Nodes :
            /\ a.type # b.type => ~Equal(a, b)
            /\ Equal(a, b) <=> Content(a) = Content(b)
            /\ Equal(Moved(a, 1), b) <=> Equal(a, b)
            /\ Equal(a, Moved(b, 1)) <=> Equal(a, b)
            /\ Equal(a, a)
            /\ Equal(a, b) => Equal(b, a)
            /\ Equal(a, b) => \A c \in Nodes : Equal(b, c) => Equal(a, c)

\* A finished render that found a List equal to one with the same items on
\* other lines, and met blocks of different variants and unequal blocks of
\* one variant.
C14_Witness ==
    /\ RenderReturned /\ ~pgt.nil
    /\ \E a \in DOMAIN gt, b \in DOMAIN pgt.nodes :
           /\ gt[a].type = "List" /\ Equal(gt[a], pgt.nodes[b])
           /\ gt[a].Items # pgt.nodes[b].Items
           /\ ~flags[a]
    /\ \E a, b \in Nodes : a.type # b.type
    /\ \E a, b \in Nodes : a.type = b.type /\ ~Equal(a, b)

----------------------------------------------------------------------------
(* Claims about the view, checked under SpecView. *)

\* C9: at most one call of View.render is in flight at a time.
C9_OneRenderInFlight ==
    Cardinality({t \in Threads : InRender(t)}) <= 1

\* The calls of render that have called GemtextToHTML.
PastHTML == {t \in Threads : th[t].pc \in {"store", "store2", "dispatch"} /\ ~md}

\* C10: the baseline a render passes to GemtextToHTML is the Document of the
\* last ParseGemtext call that had succeeded when the render began (nil if
\* there was none), and is not older than the baseline of a render that had
\* already returned.
C10_BaselineThreading ==
    \A t \in PastHTML :
        /\ th[t].hdr = [ptr |-> th[t].expect,
                        len |-> IF th[t].expect = 0 THEN 0
                                ELSE Len(docs[th[t].expect])]
        /\ th[t].hdr.ptr >= th[t].floor

\* A Write or Create notification for the source file waits in the channel,
\* or the timer armed for one has not fired.
Pending ==
    \/ \E e \in DOMAIN events : IsSourceChange(events[e])
    \/ dtimer # 0 /\ timers[dtimer].state = "armed"

\* Nothing is left to do: no notification, no armed timer, no render in
\* flight, nothing dispatched and not yet run; the page has loaded, the file
\* is there and no render has failed.
Settled ==
    /\ ~crashed /\ ~md /\ fileExists /\ uiPc = "ready"
    /\ events = <<>> /\ uiQueue = <<>>
    /\ \A n \in DOMAIN timers : timers[n].state # "armed"
    /\ \A t \in Threads : ~InRender(t) /\ th[t].pc # "failed"

\* The content last given to setContent was rendered from the file as it is.
ShownIsCurrent ==
    /\ shown # <<>>
    /\ docs[th[shown[1]].serial] = ParseReader(fileText).result

\* C15: with the watch goroutine and the timers scheduled, every Write or
\* Create notification for the source file is followed by the start of a
\* render, the timer armed for it or for a later one firing; and once
\* everything has settled the content displayed is rendered from the file as
\* it was after the last notification.
C15_RerenderLiveness ==
    /\ Pending ~> (~Pending /\ dtimer # 0 /\ timers[dtimer].state = "fired")
    /\ [](Settled => ShownIsCurrent)

\* The slice header of the Document with serial s, nil for 0.
HeaderOf(s) == [ptr |-> s, len |-> IF s = 0 THEN 0 ELSE Len(docs[s])]

\* The Document of the last render that returned nil: the newest of the
\* Documents of the calls that have returned nil, 0 when there is none.
LastRendered ==
    LET done == {th[t].serial : t \in {u \in Threads : th[u].pc = "done" /\ ~th[u].md}}
    IN  IF done = {} THEN 0 ELSE CHOOSE x \in done : \A y \in done : y <= x

\* The call of render by thread t returns an error in this step.
FailsNow(t) == th[t].pc # "failed" /\ th'[t].pc = "failed"

\* C16: a render that fails does so before it has stored a baseline or
\* dispatched content, and returning leaves v.gt, the dispatched functions and
\* the content displayed as they were; a failed render is not run again, a
\* render starting only on onReady or on a timer firing; and once a render
\* has failed, the baseline a render passes to GemtextToHTML is the Document
\* of the last render that returned nil.
C16_FailedRenderChangesNothing ==
    /\ [][\A t \in Threads : FailsNow(t) =>
              /\ th[t].pc \in {"open", "read"}
              /\ vgt' = vgt /\ uiQueue' = uiQueue /\ shown' = shown]_vars
    /\ [][\A t \in Threads :
              /\ th[t].pc = "failed" => th'[t].pc = "failed"
              /\ (th[t].pc = "idle" /\ th'[t].pc # "idle") =>
                     /\ th'[t].pc = "open"
                     /\ \/ t = 0 /\ uiPc = "loading" /\ uiPc' = "ready"
                        \/ t # 0 /\ timers[t].state = "armed"
                                 /\ timers'[t].state = "fired"]_vars
    /\ [][\A t \in Threads :
              (/\ \E u \in Threads : th[u].pc = "failed"
               /\ th[t].pc = "render" /\ th'[t].pc = "store") =>
                  th'[t].hdr = HeaderOf(LastRendered)]_vars

----------------------------------------------------------------------------
(* Claims about the debouncer, checked under SpecDebounce. *)

\* The n-th call of the debounce function has been made and its timer is in
\* state st.
TimerIs(n, st) == n <= Len(timers) /\ timers[n].state = st

\* The callback of the n-th call fires in this step.
FiresNow(n) == TimerIs(n, "armed") /\ timers'[n].state = "fired"

\* C11: a callback fires only when the whole quiet interval has passed since
\* its call and no later call has been made; a callback a later call has
\* superseded never fires; and of a burst of calls the callback of the last
\* one does fire, so exactly one fires.
C11_TrailingEdge ==
    /\ [][\A n \in DOMAIN timers :
            FiresNow(n) => (timers[n].rem = 0 /\ n = Len(timers))]_vars
    /\ [][\A n \in DOMAIN timers :
            /\ TimerIs(n, "stopped") => timers'[n].state = "stopped"
            /\ (TimerIs(n, "armed") /\ timers'[n].state = "stopped")
                   => Len(timers') = n + 1]_vars
    /\ [](Cardinality({n \in DOMAIN timers : timers[n].state = "armed"}) <= 1)
    /\ \A n \in 1..MaxNotes :
           TimerIs(n, "armed") ~> (TimerIs(n, "fired") \/ TimerIs(n + 1, "armed"))

\* A burst of two calls: the callback of the first was stopped by the second
\* call and has not run, and the callback of the second has fired.
C11_Witness ==
    /\ Len(timers) = 2
    /\ timers[1].state = "stopped"
    /\ timers[2].state = "fired"
    /\ th[1].pc = "idle" /\ th[2].pc = "open"

====
